---- MODULE Spec2Model ----
(***************************************************************************)
(* Model of ollect_news.py: two fetchers turn provider responses into      *)
(* NewsItems, main() concatenates them, deduplicates by url, scores,       *)
(* sorts descending, truncates to 100 and overwrites news-data.json.       *)
(*                                                                         *)
(* Conventions                                                             *)
(*  - Time is counted in quarter hours, so that hours * 4 (line 135) is    *)
(*    the difference of two integers.                                      *)
(*  - A JSON value is a record [t |-> tag, v |-> payload]; the tags are    *)
(*    "absent" (key missing), "null", "empty" (the string ""), "str" (a    *)
(*    non-empty string) and "num" (a truthy value that is no string).      *)
(*  - A text is the sequence of its words; "kw in text" (substring test)   *)
(*    is a word of the text being the keyword.  The vocabulary used has    *)
(*    no word that contains a keyword without being it.                    *)
(*  - A url is a natural number naming a distinct non-empty URL string.    *)
(*  - The NewsItem fields id, summary, company and tags are functions of   *)
(*    url, description and title alone and are read by nothing in main();  *)
(*    the model carries url, title and the fields the scorer reads.        *)
(***************************************************************************)
EXTENDS Integers, Sequences, FiniteSets, TLC

VARIABLES
    feed,       \* the outcomes the providers can produce in this behaviour
    now,        \* the wall clock, quarter hours since the epoch
    pc,         \* position of the process in main()
    kw,         \* index of fetch_newsapi's keyword loop (line 63)
    articles,   \* fetch_newsapi's local list (line 60)
    all_news,   \* main's all_news (line 154)
    unique,     \* main's unique (lines 161-171)
    stdout,     \* the lines printed by this run
    file,       \* news-data.json
    probe,      \* scorer harness: the item handed to calc_score
    probeScore  \* scorer harness: what calc_score returned

vars == <<feed, now, pc, kw, articles, all_news, unique, stdout, file,
          probe, probeScore>>

----------------------------------------------------------------------------
(* Bounds of the model *)

Now0 == 200
MaxTicks == 1
BigLen == 51

(* Program constants *)

TopN == 100
NumKeywords == 3
RecencyFallback == 50
EngFloor == 10

----------------------------------------------------------------------------
(* JSON values *)

J(tag, payload) == [t |-> tag, v |-> payload]

Truthy(j) == j.t \in {"str", "num"}

Max(a, b) == IF a >= b THEN a ELSE b

Min(a, b) == IF a <= b THEN a ELSE b

----------------------------------------------------------------------------
(* Classifier: calculate_importance (lines 34-40) *)

HighKeywords == {"launch", "announce", "official", "first", "approve"}

MediumKeywords == {"update", "plan", "test", "expand"}

\* title + " " + desc, lower-cased: the words of both (the space keeps a
\* keyword from spanning the two).
TextOf(j) == IF j.t = "str" THEN j.v ELSE <<>>

ContainsAny(text, kws) == \E i \in 1..Len(text) : text[i] \in kws

calculate_importance(title, desc) ==
    LET text == title \o desc
    IN  IF ContainsAny(text, HighKeywords) THEN "high"
        ELSE IF ContainsAny(text, MediumKeywords) THEN "medium"
        ELSE "low"

----------------------------------------------------------------------------
(* Normalizer: the dict built at lines 77-89 and 110-122 *)

\* datetime.now(timezone.utc).isoformat()
IsoNow(nowv) == J("str", [fmt |-> "datetime", wall |-> nowv, zone |-> "+00:00"])

\* a["source"].get("name", "Unknown") / a.get("source", {}).get("name", "Unknown")
SourceName(src) == IF src.t = "obj" THEN src.v ELSE "Unknown"

\* a.get("publishedAt", <now>): the default is used only when the key is missing.
PublishedAtOf(a, nowv) ==
    IF a.publishedAt.t = "absent" THEN IsoNow(nowv) ELSE a.publishedAt

\* The expressions of the dict literal that raise: generate_id(url) on a url
\* that is no string, (description or "")[:300] on a truthy non-string,
\* a["source"] on a missing key (NewsAPI only), .get on a source that is
\* null, title + " " on a title that is no string.
ConversionRaises(a, provider) ==
    \/ a.url.t = "num"
    \/ a.description.t = "num"
    \/ a.source.t = "null"
    \/ (provider = "newsapi" /\ a.source.t = "absent")
    \/ a.title.t = "num"

NewsItem(a, nowv) ==
    [ title        |-> a.title.v,
      source       |-> "news",
      sourceDetail |-> SourceName(a.source),
      url          |-> a.url.v,
      publishedAt  |-> PublishedAtOf(a, nowv),
      engagement   |-> [likes |-> 0, comments |-> 0, shares |-> 0],
      importance   |-> calculate_importance(a.title.v, TextOf(a.description)) ]

\* Mutant: only the title is tested.
HasTitleAndUrl_TitleOnly(a) == Truthy(a.title)

\* if a.get("title") and a.get("url")   (lines 76, 109)
HasTitleAndUrl(a) == Truthy(a.title) /\ Truthy(a.url)

\* The loop over data["articles"] (lines 75-89, 108-122): records without a
\* title or url are skipped; the first record whose conversion raises ends
\* the loop, and the items appended before it stay in the list.
Indices(seq) == [i \in 1..Len(seq) |-> i]

FirstRaising(recs, provider) ==
    LET bad == {i \in 1..Len(recs) :
                  HasTitleAndUrl(recs[i]) /\ ConversionRaises(recs[i], provider)}
    IN  IF bad = {} THEN Len(recs) + 1
        ELSE CHOOSE i \in bad : \A j \in bad : i <= j

Convert(recs, provider, nowv) ==
    LET stop == FirstRaising(recs, provider)
        kept == SelectSeq(Indices(recs),
                          LAMBDA i : i < stop /\ HasTitleAndUrl(recs[i]))
    IN  [items  |-> [n \in 1..Len(kept) |-> NewsItem(recs[kept[n]], nowv)],
         raised |-> stop <= Len(recs)]

\* Mutant: the except clause re-raises, and the process dies.
AfterTry_Reraises(raised, cont) == IF raised THEN "crashed" ELSE cont

\* Where control is after the try statement of a query (lines 64-91 and
\* 100-124): "except Exception" catches whatever was raised, prints it, and
\* execution goes on where it would have gone without the exception.
AfterTry(raised, cont) == cont

\* One query: requests.get, resp.json(), the status test (NewsAPI only,
\* line 74) and the loop.  raised = the except clause ran.
QueryResult(o, provider, nowv) ==
    IF o.net = "error" \/ o.body.t # "object"
    THEN [items |-> <<>>, raised |-> TRUE]
    ELSE IF provider = "newsapi" /\ o.body.status # "ok"
    THEN [items |-> <<>>, raised |-> FALSE]
    ELSE IF o.body.articles.t = "absent"
    THEN [items |-> <<>>, raised |-> FALSE]
    ELSE IF o.body.articles.t = "null"
    THEN [items |-> <<>>, raised |-> TRUE]
    ELSE Convert(o.body.articles.v, provider, nowv)

----------------------------------------------------------------------------
(* Scorer: calc_score (lines 129-149) *)

\* The offset of an ISO zone suffix, in quarter hours.  A trailing "Z" is
\* rewritten to "+00:00" (line 131) and a string with no sign after its
\* tenth character gets "+00:00" appended (lines 132-133).
ZoneOffset(zone) ==
    CASE zone = "Z"      -> 0
      [] zone = ""       -> 0
      [] zone = "+00:00" -> 0
      [] zone = "+01:00" -> 4
      [] zone = "-01:00" -> 0 - 4

\* Lines 131-134 succeed: publishedAt is a string (None.replace raises), and
\* fromisoformat accepts it as a date and time.  A date alone gets "+00:00"
\* appended and either fails to parse or parses as a naive datetime, whose
\* subtraction from an aware one raises.
Parseable(pub) == pub.t = "str" /\ pub.v.fmt = "datetime"

\* The instant a parseable publishedAt denotes.
Instant(pub) == pub.v.wall - ZoneOffset(pub.v.zone)

\* hours * 4 of line 135, hours being (now - published) in hours.
QuartersSince(pub, nowv) == nowv - Instant(pub)

\* Mutant: the age is added instead of subtracted.
time_score_SignFlipped(pub, nowv) ==
    IF Parseable(pub)
    THEN Max(0, 100 + QuartersSince(pub, nowv))
    ELSE RecencyFallback

\* Lines 130-137: the recency sub-score.
time_score(pub, nowv) ==
    IF Parseable(pub)
    THEN Max(0, 100 - QuartersSince(pub, nowv))
    ELSE RecencyFallback

\* total of line 140
EngTotal(eng) == eng.likes + eng.comments * 3 + eng.shares * 2

\* src_weights[...] * 30 of lines 143-144: 1.5, 1.0, 0.8, 0.7, default 1.0
src_score(source) ==
    CASE source = "official" -> 45
      [] source = "news"     -> 30
      [] source = "x"        -> 24
      [] source = "reddit"   -> 21
      [] OTHER               -> 30

\* imp_bonus of lines 146-147
bonus(importance) ==
    CASE importance = "high"   -> 20
      [] importance = "medium" -> 10
      [] OTHER                 -> 0

\* The largest s with s * s <= n, for n up to hi * hi.
ISqrt(n, hi) == CHOOSE s \in 0..hi : s * s <= n /\ (s + 1) * (s + 1) > n

\* eng_score * 0.35 in hundredths of a point, rounded down, with whether it
\* is exact.  total = 0 gives the floor 10; otherwise min(100, sqrt(total)*2),
\* that is 70 * sqrt(total) hundredths below total = 2500 and 3500 from there.
EngHundredths(total) ==
    IF total = 0 THEN [h |-> 35 * EngFloor, exact |-> TRUE]
    ELSE IF total >= 2500 THEN [h |-> 3500, exact |-> TRUE]
    ELSE LET s == ISqrt(4900 * total, 3500)
         IN  [h |-> s, exact |-> (s * s = 4900 * total)]

\* Python's round(): to the nearest integer, a tie to the even one.  The
\* argument is (h + f) / 100 with 0 <= f < 1 and f = 0 iff exact.
RoundHalfEven(h, exact) ==
    LET k == (h + 50) \div 100
    IN  IF exact /\ (h + 50) % 100 = 0 /\ k % 2 = 1 THEN k - 1 ELSE k

\* Line 149.  The weighted sum is taken exactly; the float sum of the code
\* can differ from it only in which way an exact tie (x.5) is rounded.
calc_score(item, nowv) ==
    LET e == EngHundredths(EngTotal(item.engagement))
        h == 30 * time_score(item.publishedAt, nowv) + e.h
             + 20 * src_score(item.source) + 15 * bonus(item.importance)
    IN  RoundHalfEven(h, e.exact)

----------------------------------------------------------------------------
(* Aggregator: the body of main (lines 160-177) *)

\* Mutant: the last item with a url is kept instead of the first.
Dedup_KeepsLast(items) ==
    LET kept == SelectSeq([i \in 1..Len(items) |-> i],
                          LAMBDA i : \A j \in (i + 1)..Len(items) :
                                        items[j].url # items[i].url)
    IN  [n \in 1..Len(kept) |-> items[kept[n]]]

\* Lines 160-165: an item is kept iff its url is not in seen, that is iff
\* no earlier item of the list has its url.
Dedup(items) ==
    LET kept == SelectSeq(Indices(items),
                          LAMBDA i : \A j \in 1..(i - 1) : items[j].url # items[i].url)
    IN  [n \in 1..Len(kept) |-> items[kept[n]]]

\* Lines 167-168: item["priorityScore"] = calc_score(item)
WithScore(item, nowv) ==
    [ title         |-> item.title,
      source        |-> item.source,
      sourceDetail  |-> item.sourceDetail,
      url           |-> item.url,
      publishedAt   |-> item.publishedAt,
      engagement    |-> item.engagement,
      importance    |-> item.importance,
      priorityScore |-> calc_score(item, nowv) ]

ScoreAll(items, nowv) == [i \in 1..Len(items) |-> WithScore(items[i], nowv)]

\* Mutant: ascending sort followed by a reversal, which turns ties around.
SortRank_TiesReversed(items, i) ==
    1 + Cardinality({j \in 1..Len(items) :
                       \/ items[j].priorityScore > items[i].priorityScore
                       \/ /\ items[j].priorityScore = items[i].priorityScore
                          /\ j > i})

\* list.sort(key=..., reverse=True) (line 170) is stable: an item comes after
\* the items with a greater key and after the items with its own key that
\* were before it in the list.
SortRank(items, i) ==
    1 + Cardinality({j \in 1..Len(items) :
                       \/ items[j].priorityScore > items[i].priorityScore
                       \/ /\ items[j].priorityScore = items[i].priorityScore
                          /\ j < i})

\* Mutant: sorted(unique, ...) with its result dropped.
SortDesc_ResultDropped(items) == items

SortDesc(items) ==
    LET rank == [i \in 1..Len(items) |-> SortRank(items, i)] \o <<>>
    IN  [p \in 1..Len(items) |-> items[CHOOSE i \in 1..Len(items) : rank[i] = p]]

\* Mutant: unique[-100:]
Truncate_KeepsTail(items) ==
    SubSeq(items, Max(1, Len(items) - TopN + 1), Len(items))

\* Line 171: unique[:100]
Truncate(items) == SubSeq(items, 1, Min(Len(items), TopN))

\* Lines 173-177
Snapshot(items, nowv) ==
    [ exists      |-> TRUE,
      lastUpdated |-> nowv,
      totalCount  |-> Len(items),
      news        |-> items ]

NoFile == [exists |-> FALSE, lastUpdated |-> 0, totalCount |-> 0, news |-> <<>>]

\* Mutant: the file is opened in append mode and read back as one list.
Overwrite_Appends(old, snapshot) ==
    [ exists      |-> TRUE,
      lastUpdated |-> snapshot.lastUpdated,
      totalCount  |-> old.totalCount + snapshot.totalCount,
      news        |-> old.news \o snapshot.news ]

\* open("news-data.json", "w") and json.dump: the old content is gone.
Overwrite(old, snapshot) == snapshot

Line(msg, n) == [msg |-> msg, n |-> n]

----------------------------------------------------------------------------
(* The providers: what a query can come back with *)

Txt(words) == J("str", words)
NoTxt(tag) == J(tag, <<>>)
Url(n) == J("str", n)
NoUrl(tag) == J(tag, 0)
At(wall, zone) == J("str", [fmt |-> "datetime", wall |-> wall, zone |-> zone])
BadPub(tag, fmt) == J(tag, [fmt |-> fmt, wall |-> 0, zone |-> ""])
Outlet(name) == J("obj", name)
NoOutlet(tag) == J(tag, "")

Rec(title, url, desc, pub, src) ==
    [title |-> title, url |-> url, description |-> desc,
     publishedAt |-> pub, source |-> src]

\* A well-formed response with a record that has no title in the middle.
RespA ==
    << Rec(Txt(<<"waymo", "launch">>), Url(1), NoTxt("absent"),
           At(Now0, "Z"), Outlet("Wire")),
       Rec(NoTxt("absent"), Url(2), Txt(<<"first">>),
           At(Now0, "Z"), Outlet("Wire")),
       Rec(Txt(<<"robotaxi">>), Url(3), Txt(<<"plan">>),
           At(Now0 - 8, ""), Outlet("Wire")) >>

\* Url 1 again with other metadata, a record with url "", and an item that
\* scores like RespA's third.
RespB ==
    << Rec(Txt(<<"duplicate">>), Url(1), NoTxt("null"),
           At(Now0 - 36, "+01:00"), Outlet("Blog")),
       Rec(Txt(<<"zoox", "test">>), NoUrl("empty"), NoTxt("empty"),
           At(Now0, "Z"), Outlet("Blog")),
       Rec(Txt(<<"robotaxi", "update">>), Url(4), NoTxt("absent"),
           At(Now0 - 8, "Z"), Outlet("Blog")) >>

\* A record whose source is null after a good one.
RespC ==
    << Rec(Txt(<<"pony", "first">>), Url(5), NoTxt("null"),
           BadPub("str", "garbage"), Outlet("Daily")),
       Rec(Txt(<<"aurora">>), Url(6), Txt(<<"expand">>),
           At(Now0 - 4, "Z"), NoOutlet("null")),
       Rec(Txt(<<"weride">>), Url(7), NoTxt("absent"),
           At(Now0, "Z"), Outlet("Daily")) >>

\* Records in GNews' shape: no source key, publishedAt missing, null, a date
\* alone or ahead of the clock, and a title that is no string at the end.
RespD ==
    << Rec(Txt(<<"tesla">>), Url(8), Txt(<<"announce">>),
           BadPub("absent", "none"), NoOutlet("absent")),
       Rec(Txt(<<"cruise">>), Url(3), NoTxt("absent"),
           BadPub("null", "none"), NoOutlet("absent")),
       Rec(NoTxt("null"), NoUrl("absent"), NoTxt("absent"),
           At(Now0, "Z"), NoOutlet("absent")),
       Rec(Txt(<<"baidu">>), Url(9), NoTxt("absent"),
           At(Now0 + 12, "-01:00"), NoOutlet("absent")),
       Rec(Txt(<<"honda">>), Url(10), NoTxt("absent"),
           BadPub("str", "date"), Outlet("Post")),
       Rec(NoTxt("num"), Url(11), NoTxt("absent"),
           At(Now0, "Z"), Outlet("Post")) >>

\* A provider that ignores pageSize / max: BigLen records with urls of their
\* own, of mixed age and importance.
BigTitle(i) ==
    CASE i % 3 = 0 -> <<"waymo", "launch">>
      [] i % 3 = 1 -> <<"zoox", "test">>
      [] OTHER     -> <<"robotaxi">>

BigResp(k) ==
    [i \in 1..BigLen |->
        Rec(Txt(BigTitle(i)), Url(100 + k * BigLen + i), NoTxt("absent"),
            At(Now0 - (i % 7) * 6, "Z"), Outlet("Feed"))]

Body(t, status, arts) == [t |-> t, status |-> status, articles |-> arts]

\* requests.get raised (connection error, timeout)
NetError == [net |-> "error", body |-> Body("invalid", "absent", J("absent", <<>>))]
\* resp.json() raised, or gave something that is no object
BadBody == [net |-> "ok", body |-> Body("invalid", "absent", J("absent", <<>>))]
\* {"status": "error", ...}
ErrStatus == [net |-> "ok", body |-> Body("object", "error", J("absent", <<>>))]
\* {"status": "ok", "articles": null}
NullArticles == [net |-> "ok", body |-> Body("object", "ok", J("null", <<>>))]
\* NewsAPI's shape: {"status": "ok", "articles": [...]}
Ok(resp) == [net |-> "ok", body |-> Body("object", "ok", J("list", resp))]
\* GNews' shape: {"totalArticles": n, "articles": [...]}
GOk(resp) == [net |-> "ok", body |-> Body("object", "absent", J("list", resp))]

Outcomes ==
    { NetError, BadBody, ErrStatus, NullArticles, Ok(<<>>),
      Ok(RespA), Ok(RespB), Ok(RespC), GOk(RespD),
      Ok(BigResp(0)), Ok(BigResp(1)) }

\* In one behaviour the providers answer with at most two different outcomes.
Feeds == {{a, b} : a \in Outcomes, b \in Outcomes}

----------------------------------------------------------------------------
(* The scorer harness: items of every source, importance and engagement *)

NoProbe ==
    [ title |-> <<>>, source |-> "news", sourceDetail |-> "Unknown", url |-> 0,
      publishedAt |-> BadPub("null", "none"),
      engagement |-> [likes |-> 0, comments |-> 0, shares |-> 0],
      importance |-> "low" ]

ProbeAges == {0 - 300, 0 - 200, 0 - 5, 0, 1, 50, 99, 100, 101, 150}

ProbePubs ==
    {At(Now0 - a, z) : a \in ProbeAges, z \in {"Z", "", "+01:00", "-01:00"}}
    \cup {BadPub("str", "garbage"), BadPub("str", "date"), BadPub("null", "none")}

ProbeEngagements ==
    [likes : {0, 1, 7}, comments : {0, 3}, shares : {0, 1250}]

ProbeItems ==
    { [ title |-> <<>>, source |-> s, sourceDetail |-> "Unknown", url |-> 1,
        publishedAt |-> p, engagement |-> e, importance |-> m ] :
      s \in {"official", "news", "x", "reddit", "blog"},
      p \in ProbePubs, e \in ProbeEngagements,
      m \in {"high", "medium", "low", "none"} }

----------------------------------------------------------------------------
(* The process: one run of main after another *)

ProbeIdle == probe = NoProbe /\ probeScore = 0 - 1

Init ==
    /\ feed \in Feeds
    /\ now = Now0
    /\ pc = "idle"
    /\ kw = 1
    /\ articles = <<>>
    /\ all_news = <<>>
    /\ unique = <<>>
    /\ stdout = <<>>
    /\ file = NoFile
    /\ ProbeIdle

\* The process starts: lines 152-154 and the entry of fetch_newsapi
\* (lines 59-61).  The locals of the run before are gone.
Start ==
    /\ pc \in {"idle", "done"}
    /\ pc' = "newsapi"
    /\ kw' = 1
    /\ articles' = <<>>
    /\ all_news' = <<>>
    /\ unique' = <<>>
    /\ stdout' = <<Line("=== News Collection", now),
                   Line("Fetching from NewsAPI...", 0)>>
    /\ UNCHANGED <<feed, now, file, probe, probeScore>>

\* One iteration of the keyword loop (lines 63-91): the try block and its
\* except clause.
NewsApiQuery ==
    /\ pc = "newsapi"
    /\ kw <= NumKeywords
    /\ \E o \in feed :
         LET r == QueryResult(o, "newsapi", now)
         IN  /\ articles' = articles \o r.items
             /\ stdout' = IF r.raised
                          THEN Append(stdout, Line("NewsAPI error", 0))
                          ELSE stdout
             /\ pc' = AfterTry(r.raised, "newsapi")
    /\ kw' = kw + 1
    /\ UNCHANGED <<feed, now, all_news, unique, file, probe, probeScore>>

\* Lines 93-94 and all_news.extend (line 155).
NewsApiReturn ==
    /\ pc = "newsapi"
    /\ kw > NumKeywords
    /\ stdout' = Append(stdout, Line("NewsAPI: articles", Len(articles)))
    /\ all_news' = all_news \o articles
    /\ articles' = <<>>
    /\ pc' = "gnews"
    /\ UNCHANGED <<feed, now, kw, unique, file, probe, probeScore>>

\* fetch_gnews (lines 96-127), all_news.extend (line 156) and line 158.
GNewsFetch ==
    /\ pc = "gnews"
    /\ \E o \in feed :
         LET r == QueryResult(o, "gnews", now)
             failed == IF r.raised THEN <<Line("GNews error", 0)>> ELSE <<>>
         IN  /\ all_news' = all_news \o r.items
             /\ stdout' = stdout \o <<Line("Fetching from GNews...", 0)>>
                            \o failed
                            \o <<Line("GNews: articles", Len(r.items)),
                                 Line("Total: articles",
                                      Len(all_news) + Len(r.items))>>
             /\ pc' = AfterTry(r.raised, "dedup")
    /\ UNCHANGED <<feed, now, kw, articles, unique, file, probe, probeScore>>

\* Lines 160-168: deduplicate, then score what is left.
DedupScore ==
    /\ pc = "dedup"
    /\ unique' = ScoreAll(Dedup(all_news), now)
    /\ pc' = "sort"
    /\ UNCHANGED <<feed, now, kw, articles, all_news, stdout, file,
                   probe, probeScore>>

\* Lines 170-171.
SortTruncate ==
    /\ pc = "sort"
    /\ unique' = Truncate(SortDesc(unique))
    /\ pc' = "persist"
    /\ UNCHANGED <<feed, now, kw, articles, all_news, stdout, file,
                   probe, probeScore>>

\* Lines 173-182.
Persist ==
    /\ pc = "persist"
    /\ file' = Overwrite(file, Snapshot(unique, now))
    /\ stdout' = Append(stdout, Line("Saved articles", Len(unique)))
    /\ pc' = "done"
    /\ UNCHANGED <<feed, now, kw, articles, all_news, unique, probe, probeScore>>

\* Time passes between two runs.  A run makes four requests of at most 30
\* seconds each (lines 71, 105), far less than a quarter hour, so the clock
\* reads the same throughout a run.
Tick ==
    /\ pc \in {"idle", "done"}
    /\ now < Now0 + MaxTicks
    /\ now' = now + 1
    /\ UNCHANGED <<feed, pc, kw, articles, all_news, unique, stdout, file,
                   probe, probeScore>>

RunStep ==
    \/ NewsApiQuery
    \/ NewsApiReturn
    \/ GNewsFetch
    \/ DedupScore
    \/ SortTruncate
    \/ Persist

Next == Start \/ RunStep \/ Tick

Spec == Init /\ [][Next]_vars

\* A started run is a sequential program whose every request has a timeout:
\* it keeps taking steps.  Its providers keep to the page size they are asked
\* for.
PagedOutcomes == Outcomes \ {Ok(BigResp(0)), Ok(BigResp(1))}

InitFair ==
    /\ Init
    /\ feed \subseteq PagedOutcomes

FairSpec == InitFair /\ [][Next]_vars /\ WF_vars(RunStep)

----------------------------------------------------------------------------
(* The scorer on its own: calc_score applied to one item *)

InitScorer ==
    /\ feed = {}
    /\ now \in {Now0, Now0 + MaxTicks}
    /\ pc = "scorer"
    /\ kw = 1
    /\ articles = <<>>
    /\ all_news = <<>>
    /\ unique = <<>>
    /\ stdout = <<>>
    /\ file = NoFile
    /\ probe \in ProbeItems
    /\ probeScore = 0 - 1

ScoreProbe ==
    /\ pc = "scorer"
    /\ probeScore' = calc_score(probe, now)
    /\ pc' = "scored"
    /\ UNCHANGED <<feed, now, kw, articles, all_news, unique, stdout, file, probe>>

ScorerNext == ScoreProbe

ScorerSpec == InitScorer /\ [][ScorerNext]_vars

----------------------------------------------------------------------------
(* Properties *)

\* A scored item without its priorityScore: the item the fetcher returned.
Fetched(item) ==
    [ title        |-> item.title,
      source       |-> item.source,
      sourceDetail |-> item.sourceDetail,
      url          |-> item.url,
      publishedAt  |-> item.publishedAt,
      engagement   |-> item.engagement,
      importance   |-> item.importance ]

\* The position of the first item with this url (0: none).
FirstIndex(items, url) ==
    LET at == {k \in 1..Len(items) : items[k].url = url}
    IN  IF at = {} THEN 0 ELSE CHOOSE k \in at : \A m \in at : k <= m

\* C1: the persisted list has at most one item per url, and each item in it
\* is the first item with its url in fetch order, field for field.
C1_DedupFirstSeenWins ==
    pc = "done" =>
        /\ \A i, j \in 1..Len(file.news) :
              i # j => file.news[i].url # file.news[j].url
        /\ \A i \in 1..Len(file.news) :
              LET k == FirstIndex(all_news, file.news[i].url)
              IN  k > 0 /\ Fetched(file.news[i]) = all_news[k]

\* A url fetched twice with different titles, and kept in the snapshot.
C1_Witness ==
    /\ pc = "done"
    /\ \E k, m \in 1..Len(all_news) :
          /\ k < m
          /\ all_news[k].url = all_news[m].url
          /\ all_news[k].title # all_news[m].title
          /\ \E i \in 1..Len(file.news) : file.news[i].url = all_news[k].url

\* C2: the news sequence of the snapshot is non-increasing in priorityScore
\* and has at most 100 items.
C2_SortedAndBounded ==
    file.exists =>
        /\ Len(file.news) <= TopN
        /\ \A i \in 1..(Len(file.news) - 1) :
              file.news[i].priorityScore >= file.news[i + 1].priorityScore

\* More than 100 distinct urls were fetched and the snapshot holds 100 items
\* of different scores.
C2_Witness ==
    /\ pc = "done"
    /\ Cardinality({all_news[k].url : k \in 1..Len(all_news)}) > TopN
    /\ Len(file.news) = TopN
    /\ file.news[1].priorityScore > file.news[TopN].priorityScore

\* C9: two items of the sorted list with equal priorityScore are in first-seen
\* fetch order.
C9_TiesKeepFetchOrder ==
    pc = "persist" =>
        \A i, j \in 1..Len(unique) :
            (i < j /\ unique[i].priorityScore = unique[j].priorityScore)
                => FirstIndex(all_news, unique[i].url)
                     < FirstIndex(all_news, unique[j].url)

\* Two items tie, and an item fetched after both was sorted in front of them.
C9_Witness ==
    /\ pc = "persist"
    /\ \E i, j, k \in 1..Len(unique) :
          /\ k < i /\ i < j
          /\ unique[i].priorityScore = unique[j].priorityScore
          /\ unique[k].priorityScore > unique[i].priorityScore
          /\ FirstIndex(all_news, unique[k].url)
               > FirstIndex(all_news, unique[j].url)

\* C10: the sort-and-truncate step keeps items of the deduplicated list only;
\* with more than 100 of them it keeps 100, and every item left out scores at
\* most what every kept item scores; with 100 or fewer it keeps them all.
C10_TruncationKeepsTop ==
    [][(pc = "sort" /\ pc' = "persist") =>
         LET kept == {unique'[j].url : j \in 1..Len(unique')}
         IN  /\ \A j \in 1..Len(unique') :
                   \E i \in 1..Len(unique) : unique[i] = unique'[j]
             /\ Len(unique) <= TopN =>
                   \A i \in 1..Len(unique) : unique[i].url \in kept
             /\ Len(unique) > TopN =>
                   /\ Len(unique') = TopN
                   /\ \A i \in 1..Len(unique) :
                         unique[i].url \notin kept =>
                            \A j \in 1..Len(unique') :
                               unique[i].priorityScore <= unique'[j].priorityScore
    ]_vars

\* Truncation happened: more than 100 distinct urls, 100 items kept.
C10_Witness ==
    /\ pc = "persist"
    /\ Cardinality({all_news[k].url : k \in 1..Len(all_news)}) > TopN
    /\ Len(unique) = TopN
    /\ unique[1].priorityScore > unique[TopN].priorityScore

CountLines(msg) == Cardinality({i \in 1..Len(stdout) : stdout[i].msg = msg})

\* C3: whatever the queries come back with, a started run reaches the write
\* and writes once.
C3_RunCompletes ==
    /\ [](CountLines("Saved articles") <= 1)
    /\ (pc = "newsapi") ~>
          (pc = "done" /\ file.exists /\ CountLines("Saved articles") = 1)

\* Every query of the run failed, each fetcher's in its own way, and the
\* snapshot was written with zero items.
C3_Witness ==
    /\ pc = "done"
    /\ feed = {NetError, BadBody}
    /\ CountLines("NewsAPI error") = NumKeywords
    /\ CountLines("GNews error") = 1
    /\ file.exists /\ file.totalCount = 0

\* C4: a query that fails adds no item to the fetcher's list, the failure
\* stays inside the fetcher, and the next query is attempted.
C4_FailedQueryContributesNothing ==
    [][/\ (pc = "newsapi" /\ CountLines("NewsAPI error")' > CountLines("NewsAPI error"))
            => (articles' = articles /\ pc' = "newsapi" /\ kw' = kw + 1)
       /\ (pc = "gnews" /\ CountLines("GNews error")' > 0)
            => (all_news' = all_news /\ pc' = "dedup")
    ]_vars

\* C5: calc_score returns an integer from 0 to 100.
C5_ScoreWithin0To100 == pc = "scored" => probeScore \in 0..100

\* The probe with another publishedAt, everything else the same.
ProbeAt(p) == [probe EXCEPT !.publishedAt = p]

\* C6: with engagement, source and importance fixed, an item published no
\* later than the probe scores no more than the probe; and the recency
\* sub-score of an item published 25 hours ago or earlier is 0.
C6_RecencyMonotone ==
    (pc = "scored" /\ Parseable(probe.publishedAt)) =>
        /\ \A p \in ProbePubs :
              (Parseable(p) /\ Instant(p) <= Instant(probe.publishedAt))
                 => calc_score(ProbeAt(p), now) <= probeScore
        /\ QuartersSince(probe.publishedAt, now) >= 100
              => time_score(probe.publishedAt, now) = 0

\* An item 25 hours old or older scores strictly less than the more recent
\* probe.
C6_Witness ==
    /\ pc = "scored"
    /\ Parseable(probe.publishedAt)
    /\ \E p \in ProbePubs :
          /\ Parseable(p)
          /\ Instant(p) < Instant(probe.publishedAt)
          /\ QuartersSince(p, now) >= 100
          /\ time_score(p, now) = 0
          /\ calc_score(ProbeAt(p), now) < probeScore

\* A record whose title or url is missing, null or "".
Malformed(a) ==
    \/ a.title.t \in {"absent", "null", "empty"}
    \/ a.url.t \in {"absent", "null", "empty"}

WithoutMalformed(o) ==
    [o EXCEPT !.body.articles.v = SelectSeq(@, LAMBDA a : ~Malformed(a))]

ItemsOK(items) ==
    \A i \in 1..Len(items) : items[i].title # <<>> /\ items[i].url # 0

\* C7: when a query is made, whatever response comes gives the same items and
\* the same error or none as that response without its records that lack a
\* title or a url; no item anywhere has an empty title or url.
C7_MalformedRecordsDropped ==
    /\ \A provider \in {"newsapi", "gnews"} :
          pc = provider =>
             \A o \in feed :
                QueryResult(o, provider, now)
                   = QueryResult(WithoutMalformed(o), provider, now)
    /\ ItemsOK(articles) /\ ItemsOK(all_news) /\ ItemsOK(unique) /\ ItemsOK(file.news)

\* A response with a record lacking a title or url before a good one, whose
\* item is in the snapshot while the malformed record left nothing.
C7_Witness ==
    /\ pc = "done"
    /\ \E o \in feed :
          LET recs == o.body.articles.v
          IN  \E i, j \in 1..Len(recs) :
                 /\ i < j
                 /\ Malformed(recs[i]) /\ recs[i].url.t = "str"
                 /\ ~Malformed(recs[j])
                 /\ \E n \in 1..Len(file.news) : file.news[n].url = recs[j].url.v
                 /\ \A n \in 1..Len(file.news) : file.news[n].url # recs[i].url.v

\* C8: the write leaves in the file only items this run fetched, with
\* totalCount their number (nothing at all when nothing was fetched), and no
\* other step touches the file.
C8_SnapshotReplaced ==
    [][IF pc = "persist"
       THEN /\ file'.exists
            /\ file'.totalCount = Len(file'.news)
            /\ \A i \in 1..Len(file'.news) :
                  \E k \in 1..Len(all_news) : Fetched(file'.news[i]) = all_news[k]
            /\ all_news = <<>> => (file'.totalCount = 0 /\ file'.news = <<>>)
       ELSE file' = file
    ]_vars

\* A run that fetched nothing is about to write over the snapshot of an
\* earlier run that holds items.
C8_Witness ==
    /\ pc = "persist"
    /\ file.exists /\ file.totalCount > 0
    /\ all_news = <<>>

====
